---- MODULE Spec2Model ----
(***************************************************************************)
(* A model of wvr-cam's CamProvider (src/src/cam.rs): the frame slot        *)
(* (video_buffer: Arc<Mutex<Buffer>>) written by the appsink new_sample     *)
(* callback on the pipeline's streaming thread and read by get() on the     *)
(* caller's thread, the pixel normalisation done by the callback, and the   *)
(* lifecycle commands forwarded to the gstreamer pipeline.                  *)
(*                                                                         *)
(* Two threads: the delivery thread runs the callback (cb_pc), the caller's *)
(* thread runs the InputProvider methods (main_pc).  Statements that touch  *)
(* only a thread's own locals are grouped into one step; every access to    *)
(* the mutex or to the buffer behind it is a step of its own, except that   *)
(* a guard is released in the step of the last statement under it.          *)
(***************************************************************************)
EXTENDS Integers, Sequences, FiniteSets, TLC

\* ------------------------------------------------------------------ bounds
\* Width and height of the resolution the session is opened with.
MaxWidth == 2
MaxHeight == 1
\* Sample bytes range over 0..MaxByte.
MaxByte == 4
\* A mapped buffer holds width*height*bytes-per-pixel bytes, MaxPad bytes fewer
\* (a truncated buffer) or MaxPad bytes more (row padding).
MaxPad == 1
\* Number of frame-ready notifications the pipeline delivers in a run.
MaxFrames == 2

\* ------------------------------------------------------------ value spaces
Names == {"cam", "other"}
Properties == {"exposure"}
Formats == {"Rgb", "Rgba", "Bgr", "Bgra"}
\* gst_video::VideoFormat values the pipeline can report; "Gray8" stands for
\* every format outside the four the callback matches.
VideoFormats == Formats \cup {"Gray8"}

\* Option<Vec<u8>>
NoData == [some |-> FALSE, bytes |-> <<>>]
SomeData(b) == [some |-> TRUE, bytes |-> b]

\* Option<DataHolder::Texture(((w, h), bytes))>; src records which
\* notification wrote the dimensions and the data that were copied out.
NoOrigin == [dimensions |-> 0, data |-> 0, overwrote |-> FALSE]
NoTexture == [some |-> FALSE, size |-> <<0, 0>>, bytes |-> <<>>, src |-> NoOrigin]
Texture(size, b, o) == [some |-> TRUE, size |-> size, bytes |-> b, src |-> o]

\* --------------------------------------------------------- normalisation
\* Channels per pixel of the image type each TextureFormat is decoded as.
Bpp(format) == IF format \in {"Rgb", "Bgr"} THEN 3 ELSE 4

\* ImageBuffer::from_raw: Some exactly when the container is big enough.
FromRawFits(width, height, format, samples) ==
    width * height * Bpp(format) <= Len(samples)

\* Pixel p (1-based) of a raw container.
PixelAt(samples, format, p) ==
    SubSeq(samples, (p - 1) * Bpp(format) + 1, p * Bpp(format))

\* Mutant: the channels are copied in the order they come in.
ToRgb_NoSwap(format, px) == <<px[1], px[2], px[3]>>

\* The Rgb<u8> a pixel of the given layout converts to.
ToRgb(format, px) ==
    IF format \in {"Rgb", "Rgba"} THEN <<px[1], px[2], px[3]>>
    ELSE <<px[3], px[2], px[1]>>

\* DynamicImage::into_rgb8(..).into_vec(): an Rgb8 image is returned as it is,
\* with its whole container; every other layout is converted pixel by pixel
\* into a fresh width*height image.
IntoRgb8Vec(width, height, format, samples) ==
    IF format = "Rgb" THEN samples
    ELSE [i \in 1..(width * height * 3) |->
            ToRgb(format, PixelAt(samples, format, ((i - 1) \div 3) + 1))[((i - 1) % 3) + 1]]

\* The bytes of a mapped buffer of the given length.
Ramp(len, seed) == [i \in 1..len |-> (i + seed) % (MaxByte + 1)]

\* ------------------------------------------------------------------ state
VARIABLES
    resolution,    \* the resolution new() was called with, fixed in the caps filter
    name,          \* CamProvider.name
    video_buffer,  \* the Buffer behind the mutex: dimensions, data
    mutex,         \* the Mutex itself: holder, poisoned
    pipeline,      \* the state the gstreamer pipeline is in
    cb_pc,         \* position of the delivery thread in the new_sample callback
    cb,            \* the callback's locals
    flow,          \* what the callback returned to the pipeline, and why
    main_pc,       \* position of the caller's thread
    call,          \* the arguments of the get in progress
    ret,           \* the last call that returned, with its value
    frames,        \* notifications delivered so far
    origin,        \* which notification wrote video_buffer's dimensions and data
    pending,       \* the frame of the last completed write, until it is taken
    lastRead,      \* the last matching read since the last write: kind, result
    stopped        \* stop() has succeeded at least once

vars == <<resolution, name, video_buffer, mutex, pipeline, cb_pc, cb, flow,
          main_pc, call, ret, frames, origin, pending, lastRead, stopped>>

cbVars == <<cb_pc, cb, flow, frames>>
slotVars == <<video_buffer, mutex, origin, pending, lastRead>>
sessionVars == <<resolution, name, pipeline, stopped>>

NoFrame == [seq |-> 0, dimensions |-> <<0, 0, 3>>, bytes |-> <<>>]
NoSample == [seq |-> 0, width |-> 0, height |-> 0, format |-> "none",
             samples |-> <<>>, image |-> <<>>, malformed |-> FALSE]
NoCall == [uniform_name |-> "", invalidate |-> FALSE, waited |-> FALSE]
NoRet == [op |-> "none", value |-> "none", uniform_name |-> "",
          invalidate |-> FALSE, locked |-> FALSE, waited |-> FALSE,
          after |-> "none", texture |-> NoTexture, accepted |-> FALSE]
NoRead == [kind |-> "none", texture |-> NoTexture]
NoFlow == [value |-> "none", why |-> "none"]

\* CamProvider::new(path, name, resolution) succeeded: the buffer has the
\* resolution's dimensions and no data, the callback is installed, the
\* pipeline plays.
Init ==
    /\ resolution = <<MaxWidth, MaxHeight>>
    /\ name \in Names
    /\ video_buffer = [dimensions |-> <<resolution[1], resolution[2], 3>>,
                       data |-> NoData]
    /\ mutex = [holder |-> "free", poisoned |-> FALSE]
    /\ pipeline = "Playing"
    /\ cb_pc = "idle"
    /\ cb = NoSample
    /\ flow = NoFlow
    /\ main_pc = "idle"
    /\ call = NoCall
    /\ ret = NoRet
    /\ frames = 0
    /\ origin = NoOrigin
    /\ pending = NoFrame
    /\ lastRead = NoRead
    /\ stopped = FALSE

\* ----------------------------------------------------------------- mutex
\* Mutant: the buffer is reached without waiting for the guard.
MutexFree_NoExclusion(m) == TRUE

\* Mutex::lock returns only once no other thread holds the guard.
MutexFree(m) == m.holder = "free"

\* Mutant: a poisoned mutex is entered all the same (PoisonError::into_inner).
LockResult_IgnorePoison(m) == "Ok"

\* Mutex::lock returns Err(PoisonError) when a holder panicked.
LockResult(m) == IF m.poisoned THEN "Err" ELSE "Ok"

Acquire(m, who) == [m EXCEPT !.holder = who]

\* Mutant: the guard outlives the block it was taken in.
Release_Never(m) == m

\* The MutexGuard goes out of scope.
Release(m) == [m EXCEPT !.holder = "free"]

\* ------------------------------------------- the new_sample callback (71-135)
\* The callback returns Err(value): the frame is dropped.
CbFail(value, why) ==
    /\ cb_pc' = "idle"
    /\ cb' = NoSample
    /\ flow' = [value |-> value, why |-> why]

\* The pipeline's streaming thread invokes the callback new() installed on the
\* pipeline's appsink.
CbNewSample ==
    /\ cb_pc = "idle"
    /\ pipeline # "none"
    /\ frames < MaxFrames
    /\ frames' = frames + 1
    /\ cb_pc' = "pull"
    /\ cb' = [NoSample EXCEPT !.seq = frames + 1]
    /\ flow' = NoFlow
    /\ UNCHANGED <<main_pc, call, ret, sessionVars, slotVars>>

\* appsink.pull_sample(): Err returns FlowError::Eos.
CbPull ==
    /\ cb_pc = "pull"
    /\ \E ok \in BOOLEAN :
          IF ok THEN cb_pc' = "extract" /\ UNCHANGED <<cb, flow>>
                ELSE CbFail("Eos", "pull")
    /\ UNCHANGED <<frames, main_pc, call, ret, sessionVars, slotVars>>

\* Bytes per pixel of a frame in the format the caps announce.
PixelStride(format) == IF format = "Gray8" THEN 1 ELSE Bpp(format)

\* The sizes a mapped buffer of a frame can have.
BufferLens(width, height, format) ==
    {n \in {width * height * PixelStride(format) - MaxPad,
             width * height * PixelStride(format),
             width * height * PixelStride(format) + MaxPad} : n >= 0}

\* get_caps, VideoInfo::from_caps, get_buffer, map_readable: each may fail with
\* FlowError::Error; otherwise the callback holds the video info (the width and
\* height the caps filter fixes, one of the video formats) and the mapped bytes.
CbExtract ==
    /\ cb_pc = "extract"
    /\ \/ \E why \in {"caps", "info", "buffer", "map"} : CbFail("Error", why)
       \/ \E f \in VideoFormats :
          \E n \in BufferLens(resolution[1], resolution[2], f) :
             /\ cb' = [cb EXCEPT !.width = resolution[1], !.height = resolution[2],
                                 !.format = f, !.samples = Ramp(n, cb.seq),
                                 !.malformed = (n # resolution[1] * resolution[2] * PixelStride(f))]
             /\ cb_pc' = "convert"
             /\ UNCHANGED flow
    /\ UNCHANGED <<frames, main_pc, call, ret, sessionVars, slotVars>>

\* Mutant: the match on the video format has no arm that drops the frame.
FormatSupported_All(format) == TRUE

\* The video format is one of the four TextureFormats, or the frame is dropped.
FormatSupported(format) == format \in Formats

\* The match on video_info.format(), from_raw(..).unwrap() and into_rgb8(): an
\* unsupported format returns FlowError::Error, a container that is too small
\* panics in unwrap, anything else leaves the converted image.
CbConvert ==
    /\ cb_pc = "convert"
    /\ IF ~FormatSupported(cb.format)
          THEN CbFail("Error", "format")
          ELSE IF ~FromRawFits(cb.width, cb.height, cb.format, cb.samples)
             THEN /\ cb_pc' = "panicked"
                  /\ flow' = [value |-> "Panic", why |-> "from_raw"]
                  /\ UNCHANGED cb
             ELSE /\ cb_pc' = "lock"
                  /\ cb' = [cb EXCEPT !.image = IntoRgb8Vec(cb.width, cb.height, cb.format, cb.samples),
                                      !.samples = <<>>, !.format = "none"]
                  /\ UNCHANGED flow
    /\ UNCHANGED <<frames, main_pc, call, ret, sessionVars, slotVars>>

\* video_buffer.lock(): Err on a poisoned mutex returns FlowError::Error.
CbLock ==
    /\ cb_pc = "lock"
    /\ MutexFree(mutex)
    /\ IF LockResult(mutex) = "Err"
          THEN CbFail("Error", "lock") /\ UNCHANGED <<mutex, call>>
          ELSE /\ mutex' = Acquire(mutex, "callback")
               /\ cb_pc' = "write_data"
               /\ call' = IF main_pc = "lock" THEN [call EXCEPT !.waited = TRUE] ELSE call
               /\ UNCHANGED <<cb, flow>>
    /\ UNCHANGED <<frames, main_pc, ret, sessionVars, video_buffer, origin,
                   pending, lastRead>>

\* Mutant: a frame that was not read yet is kept, the new one dropped.
WriteData_KeepUnread(buffer, image) ==
    IF buffer.data.some THEN buffer ELSE [buffer EXCEPT !.data = SomeData(image)]

\* video_buffer.data = Some(image_buffer.into_vec())
WriteData(buffer, image) == [buffer EXCEPT !.data = SomeData(image)]

CbWriteData ==
    /\ cb_pc = "write_data"
    /\ video_buffer' = WriteData(video_buffer, cb.image)
    /\ origin' = [origin EXCEPT !.data = cb.seq,
                                !.overwrote = (video_buffer.data.some /\ lastRead.kind = "none")]
    /\ lastRead' = NoRead
    /\ cb_pc' = "write_dims"
    /\ UNCHANGED <<cb, flow, frames, main_pc, call, ret, sessionVars, mutex, pending>>

\* video_buffer.dimensions = vec![width, height, 3]
WriteDimensions(buffer, width, height) ==
    [buffer EXCEPT !.dimensions = <<width, height, 3>>]

\* The dimensions are assigned, the guard goes out of scope and the callback
\* returns Ok(FlowSuccess::Ok).
CbWriteDims ==
    /\ cb_pc = "write_dims"
    /\ video_buffer' = WriteDimensions(video_buffer, cb.width, cb.height)
    /\ origin' = [origin EXCEPT !.dimensions = cb.seq]
    /\ mutex' = Release(mutex)
    /\ pending' = [seq |-> cb.seq, dimensions |-> <<cb.width, cb.height, 3>>,
                   bytes |-> cb.image]
    /\ flow' = [value |-> "Ok", why |-> "none"]
    /\ cb_pc' = "idle"
    /\ cb' = NoSample
    /\ UNCHANGED <<frames, main_pc, call, ret, sessionVars, lastRead>>

Callback ==
    \/ CbNewSample \/ CbPull \/ CbExtract \/ CbConvert
    \/ CbLock \/ CbWriteData \/ CbWriteDims

\* --------------------------------------------------- InputProvider::get (173-197)
\* Mutant: get answers for every name.
NameMatches_Any(uniform_name, own) == TRUE

\* Mutant: get answers for every name a provider can have.
NameMatches_Provided(uniform_name, own) == uniform_name \in Names

\* uniform_name == self.name
NameMatches(uniform_name, own) == uniform_name = own

\* video_buffer.data.as_ref().map(|data| Texture(((dimensions[0], dimensions[1]), data.to_vec())))
ReadTexture(buffer, o) ==
    IF buffer.data.some
       THEN Texture(<<buffer.dimensions[1], buffer.dimensions[2]>>, buffer.data.bytes, o)
       ELSE NoTexture

\* Mutants: the invalidate flag is ignored, one way or the other.
Invalidate_Never(buffer, invalidate) == buffer
Invalidate_Always(buffer, invalidate) == [buffer EXCEPT !.data = NoData]

\* Mutant: the data is cleared by the get that did not ask for it.
Invalidate_OnPeek(buffer, invalidate) ==
    IF invalidate THEN buffer ELSE [buffer EXCEPT !.data = NoData]

\* if invalidate { video_buffer.data = None; }
Invalidate(buffer, invalidate) ==
    IF invalidate THEN [buffer EXCEPT !.data = NoData] ELSE buffer

\* The caller invokes get(uniform_name, invalidate); a name that does not match
\* returns None at once.
Get ==
    /\ main_pc = "idle"
    /\ \E n \in Names, inv \in BOOLEAN :
          IF NameMatches(n, name)
             THEN /\ call' = [NoCall EXCEPT !.uniform_name = n, !.invalidate = inv]
                  /\ main_pc' = "lock"
                  /\ ret' = NoRet
             ELSE /\ ret' = [NoRet EXCEPT !.op = "get", !.value = "None",
                                          !.uniform_name = n, !.invalidate = inv]
                  /\ UNCHANGED <<main_pc, call>>
    /\ UNCHANGED <<sessionVars, cbVars, slotVars>>

\* self.video_buffer.lock(): Err on a poisoned mutex returns None.
GetLock ==
    /\ main_pc = "lock"
    /\ MutexFree(mutex)
    /\ IF LockResult(mutex) = "Err"
          THEN /\ ret' = [NoRet EXCEPT !.op = "get", !.value = "None",
                                       !.uniform_name = call.uniform_name,
                                       !.invalidate = call.invalidate]
               /\ main_pc' = "idle"
               /\ call' = NoCall
               /\ UNCHANGED mutex
          ELSE /\ mutex' = Acquire(mutex, "get")
               /\ main_pc' = "locked"
               /\ UNCHANGED <<call, ret>>
    /\ UNCHANGED <<sessionVars, cbVars, video_buffer, origin, pending, lastRead>>

\* Under the guard: the result is copied out, the data cleared on invalidate;
\* the guard goes out of scope and get returns the result.
GetRead ==
    /\ main_pc = "locked"
    /\ LET result == ReadTexture(video_buffer, origin)
       IN  /\ ret' = [NoRet EXCEPT !.op = "get", !.locked = TRUE,
                                   !.uniform_name = call.uniform_name,
                                   !.invalidate = call.invalidate,
                                   !.waited = call.waited,
                                   !.after = lastRead.kind,
                                   !.value = IF result.some THEN "Some" ELSE "None",
                                   !.texture = result]
           /\ lastRead' = [kind |-> IF call.invalidate THEN "take" ELSE "peek",
                           texture |-> result]
    /\ video_buffer' = Invalidate(video_buffer, call.invalidate)
    /\ pending' = IF call.invalidate THEN NoFrame ELSE pending
    /\ mutex' = Release(mutex)
    /\ main_pc' = "idle"
    /\ call' = NoCall
    /\ UNCHANGED <<sessionVars, cbVars, origin>>

\* ------------------------------------------------------ the other methods
\* Mutant: set_name leaves the name as it is.
Rename_Keep(old, n) == old

\* self.name = name.to_owned()
Rename(old, n) == n

\* set_name (161-163); ret keeps the argument, and in after the name the
\* provider had when it was called.
SetName ==
    /\ main_pc = "idle"
    /\ \E n \in Names :
          /\ name' = Rename(name, n)
          /\ ret' = [NoRet EXCEPT !.op = "set_name", !.uniform_name = n,
                                  !.after = name]
    /\ UNCHANGED <<main_pc, call, resolution, pipeline, stopped, cbVars, slotVars>>

\* provides (165-167)
Provides ==
    /\ main_pc = "idle"
    /\ ret' = [NoRet EXCEPT !.op = "provides", !.value = name]
    /\ UNCHANGED <<main_pc, call, sessionVars, cbVars, slotVars>>

\* set_property (169-171): prints, changes nothing
SetProperty ==
    /\ main_pc = "idle"
    /\ \E p \in Properties :
          ret' = [NoRet EXCEPT !.op = "set_property"]
    /\ UNCHANGED <<main_pc, call, sessionVars, cbVars, slotVars>>

\* Mutant: a pipeline in Null stays there, whatever is requested.
SetState_NullIsTerminal(current, target, accepted) ==
    IF accepted /\ current # "Null" THEN target ELSE current

\* Mutant: the pipeline changes state even when it reports a failure.
SetState_Forced(current, target, accepted) == target

\* pipeline.set_state(target): the state the pipeline is in afterwards.
SetState(current, target, accepted) == IF accepted THEN target ELSE current

\* .context(..)?; Ok(()): the pipeline's error is returned to the caller.
CallResult(accepted) == IF accepted THEN "Ok" ELSE "Err"

Lifecycle(op, target) ==
    /\ main_pc = "idle"
    /\ \E accepted \in BOOLEAN :
          /\ pipeline' = SetState(pipeline, target, accepted)
          /\ ret' = [NoRet EXCEPT !.op = op, !.value = CallResult(accepted),
                                  !.accepted = accepted]
          /\ stopped' = (stopped \/ (op = "stop" /\ accepted))
    /\ UNCHANGED <<main_pc, call, resolution, name, cbVars, slotVars>>

\* stop (199-205), play (207-213), pause (214-220)
Stop == Lifecycle("stop", "Null")
Play == Lifecycle("play", "Playing")
Pause == Lifecycle("pause", "Paused")

Provider ==
    \/ Get \/ GetLock \/ GetRead
    \/ SetName \/ Provides \/ SetProperty \/ Stop \/ Play \/ Pause

\* Drop for CamProvider (152-158): stop() is called, an error it returns is
\* printed, and the provider is gone whatever stop() returned; the callback
\* keeps its own clone of the buffer.  ret records what the stop() returned.
Drop ==
    /\ main_pc = "idle"
    /\ \E accepted \in BOOLEAN :
          /\ pipeline' = SetState(pipeline, "Null", accepted)
          /\ ret' = [NoRet EXCEPT !.op = "drop", !.value = CallResult(accepted),
                                  !.accepted = accepted]
          /\ stopped' = (stopped \/ accepted)
    /\ main_pc' = "dropped"
    /\ UNCHANGED <<call, resolution, name, cbVars, slotVars>>

Next == Callback \/ Provider \/ Drop

Spec == Init /\ [][Next]_vars

\* --------------------------------------------------------- fair scheduling
\* Both threads keep running: a step of the callback or of a get that can be
\* taken is taken, and a thread asking for the mutex gets it when the mutex is
\* free again and again.  Whether the pipeline delivers another notification
\* and whether the caller makes another call is left open.
Fairness ==
    /\ WF_vars(CbPull \/ CbExtract \/ CbConvert \/ CbWriteData \/ CbWriteDims)
    /\ SF_vars(CbLock)
    /\ SF_vars(GetLock)
    /\ WF_vars(GetRead)

SpecLive == Init /\ [][Next]_vars /\ Fairness

\* ------------------------------------------------- CamProvider::new (34-149)
\* No Buffer exists before new() has run.
NoBuffer == [dimensions |-> <<>>, data |-> NoData]

\* Mutant: the result of set_state(State::Playing) is not looked at.
NewResult_IgnoreStart(built, started) == IF built THEN "Ok" ELSE "Err"

\* The two `?` of new(): parse_launch(..).context(..)? (53-54) and
\* set_state(State::Playing).context(..)? (140-142).
NewResult(built, started) == IF built /\ started THEN "Ok" ELSE "Err"

\* Before new(path, name, resolution) is called: no provider, no pipeline.
InitNew ==
    /\ resolution = <<MaxWidth, MaxHeight>>
    /\ name = ""
    /\ video_buffer = NoBuffer
    /\ mutex = [holder |-> "free", poisoned |-> FALSE]
    /\ pipeline = "none"
    /\ cb_pc = "idle"
    /\ cb = NoSample
    /\ flow = NoFlow
    /\ main_pc = "new"
    /\ call = NoCall
    /\ ret = NoRet
    /\ frames = 0
    /\ origin = NoOrigin
    /\ pending = NoFrame
    /\ lastRead = NoRead
    /\ stopped = FALSE

\* new(path, name, resolution): the buffer is created, the pipeline parsed
\* (built) and set to Playing (started); either `?` returns the error, and then
\* the pipeline and the buffer are dropped with new()'s locals.  gst::init()
\* and the lookups of the appsink in the pipeline new() has just described
\* (56-65) are taken to succeed.  ret keeps the name argument, and in accepted
\* whether the pipeline was both built and started.
New ==
    /\ main_pc = "new"
    /\ \E n \in Names, built \in BOOLEAN, started \in BOOLEAN :
          /\ ret' = [NoRet EXCEPT !.op = "new", !.value = NewResult(built, started),
                                  !.uniform_name = n, !.accepted = (built /\ started)]
          /\ IF NewResult(built, started) = "Ok"
                THEN /\ name' = n
                     /\ video_buffer' = [dimensions |-> <<resolution[1], resolution[2], 3>>,
                                         data |-> NoData]
                     /\ pipeline' = SetState("Null", "Playing", started)
                     /\ main_pc' = "idle"
                ELSE /\ main_pc' = "failed"
                     /\ UNCHANGED <<name, video_buffer, pipeline>>
    /\ UNCHANGED <<resolution, mutex, call, stopped, cbVars, origin, pending, lastRead>>

NextNew == New \/ Next

SpecNew == InitNew /\ [][NextNew]_vars

\* ------------------------------------------------------- injected fault
\* A get panics while it holds the guard: unwinding drops the guard, which
\* poisons the mutex, and the caller catches the unwind and carries on.  No
\* statement between lines 175 and 190 panics on its own; this is the fault the
\* Err branches of the two lock() calls are written for.
GetPanics ==
    /\ main_pc = "locked"
    /\ mutex' = [holder |-> "free", poisoned |-> TRUE]
    /\ main_pc' = "idle"
    /\ call' = NoCall
    /\ ret' = [NoRet EXCEPT !.op = "get", !.value = "Panic",
                            !.uniform_name = call.uniform_name,
                            !.invalidate = call.invalidate]
    /\ UNCHANGED <<sessionVars, cbVars, video_buffer, origin, pending, lastRead>>

NextFault == Next \/ GetPanics

SpecFault == Init /\ [][NextFault]_vars

\* =================================================================== claims
\* The step in which a get whose name matched reads the buffer under the guard
\* and returns.
ReadStep == main_pc = "locked" /\ main_pc' = "idle" /\ ret'.locked

\* C1 (frame slot overwrite): a matching get returns, if anything, exactly the
\* dimensions and bytes of the last write that completed, and it does return
\* them as long as that frame was not taken; so after frame A and then frame B
\* were written with no get in between the next get returns B, and no get
\* returns A afterwards.
LastWriterWins ==
    [][ReadStep =>
          /\ ret'.texture.some =>
                /\ pending.seq > 0
                /\ ret'.texture.src.data = pending.seq
                /\ ret'.texture.size = <<pending.dimensions[1], pending.dimensions[2]>>
                /\ ret'.texture.bytes = pending.bytes
          /\ pending.seq > 0 => ret'.texture.some]_vars

\* Frame 2 was written over frame 1, which no get had read, and the first
\* get after that returned frame 2.
OverwrittenFrameRead ==
    /\ ret.op = "get" /\ ret.texture.some
    /\ ret.after = "none"
    /\ ret.texture.src.overwrote
    /\ ret.texture.src.data = 2

PeekRepeatable ==
    [][/\ (main_pc = "idle" /\ main_pc' # "idle" /\ ~call'.invalidate)
             => video_buffer' = video_buffer
       /\ (main_pc # "idle" /\ main_pc' # main_pc /\ ~call.invalidate)
             => video_buffer' = video_buffer
       /\ (ReadStep /\ ~call.invalidate /\ lastRead.kind = "peek")
             => ret'.texture = lastRead.texture]_vars

\* A non-invalidating get returned a frame that the read before it had
\* already returned.
RepeatedPeek ==
    /\ ret.op = "get" /\ ret.locked /\ ~ret.invalidate
    /\ ret.after = "peek"
    /\ ret.texture.some

\* C4 (name matching): a get whose requested name differs from the provider's
\* name has returned None, whatever the slot holds and whatever invalidate is,
\* and only a get whose name matches goes on to the lock.
NameMatching ==
    /\ (ret.op = "get" /\ ret.uniform_name # name)
          => (ret.value = "None" /\ ~ret.texture.some)
    /\ main_pc \in {"lock", "locked"} => call.uniform_name = name

\* A get with another name and invalidate = true returned None while the slot
\* holds a frame.
MismatchOnFullSlot ==
    /\ ret.op = "get" /\ ret.uniform_name # name /\ ret.invalidate
    /\ ret.value = "None"
    /\ video_buffer.data.some

\* C5 (no torn read): the dimensions and the bytes a get returned were written
\* by one and the same notification, and whenever the callback does not hold
\* the guard the buffer's data, if any, and its dimensions come from one write.
NoTornRead ==
    /\ (ret.op = "get" /\ ret.texture.some)
          => /\ ret.texture.src.data >= 1
             /\ ret.texture.src.data = ret.texture.src.dimensions
    /\ (mutex.holder # "callback" /\ video_buffer.data.some)
          => origin.data = origin.dimensions

\* A get waited for the guard while the callback was writing a frame, and then
\* returned that frame.
ReadWaitedForWrite ==
    /\ ret.op = "get" /\ ret.waited /\ ret.texture.some
    /\ ret.after = "none"

\* C6 (frame invariant): whenever the guard is free and the slot holds data, the
\* data's length is dimensions[0] * dimensions[1] * dimensions[2] and
\* dimensions[2] is 3.
FrameInvariant ==
    (mutex.holder = "free" /\ video_buffer.data.some)
       => /\ video_buffer.dimensions[3] = 3
          /\ Len(video_buffer.data.bytes) =
                video_buffer.dimensions[1] * video_buffer.dimensions[2] * video_buffer.dimensions[3]

MalformedFrameDropped ==
    ~(cb.malformed /\ cb_pc \in {"panicked", "lock", "write_data", "write_dims"})

\* C9 (per-frame failures are non-fatal): a callback that returns from the
\* sample pull, from the extraction or from the format match returns Eos or
\* Error and leaves the slot, the guard, the pipeline state and the name as
\* they were; an unsupported format always returns Error; none of the three
\* ends the delivery thread.
PerFrameFailureNonFatal ==
    [][/\ (cb_pc \in {"pull", "extract", "convert"} /\ cb_pc' = "idle")
             => /\ flow'.value \in {"Eos", "Error"}
                /\ UNCHANGED <<video_buffer, mutex, pipeline, stopped, name>>
       /\ (cb_pc = "convert" /\ cb.format \notin Formats /\ cb_pc' # cb_pc)
             => (cb_pc' = "idle" /\ flow'.value = "Error")
       /\ (cb_pc \in {"pull", "extract"} /\ cb_pc' # cb_pc)
             => cb_pc' \in {"extract", "convert", "idle"}]_vars

\* The second notification was dropped for its format while the slot holds
\* the first one's frame.
DroppedFrameLeavesSlot ==
    /\ cb_pc = "idle" /\ frames = 2
    /\ flow = [value |-> "Error", why |-> "format"]
    /\ video_buffer.data.some /\ origin.data = 1

\* C10 (lock-failure fail-safe): on a poisoned mutex get returns None and the
\* callback returns Error without writing; the buffer is as it was and both
\* threads carry on.
LockFailureFailSafe ==
    [][/\ (mutex.poisoned /\ main_pc = "lock" /\ main_pc' # main_pc)
             => /\ main_pc' = "idle"
                /\ ret'.op = "get" /\ ret'.value = "None" /\ ~ret'.texture.some
                /\ video_buffer' = video_buffer
       /\ (mutex.poisoned /\ cb_pc = "lock" /\ cb_pc' # cb_pc)
             => /\ cb_pc' = "idle"
                /\ flow' = [value |-> "Error", why |-> "lock"]
                /\ video_buffer' = video_buffer]_vars

\* On a poisoned mutex a get with the provider's name returned None and the
\* callback dropped its frame, with the slot still holding the frame before.
PoisonedLockFailsSafe ==
    /\ mutex.poisoned
    /\ ret.op = "get" /\ ret.uniform_name = name /\ ret.value = "None" /\ ~ret.locked
    /\ cb_pc = "idle" /\ flow = [value |-> "Error", why |-> "lock"]
    /\ video_buffer.data.some

\* C11 (teardown always stops): once the provider was dropped, the drop has
\* called stop() and completed, and the pipeline is not left running: it is in
\* Null.
TeardownAlwaysStops ==
    main_pc = "dropped" => (ret.op = "drop" /\ pipeline = "Null")

SetNameRebinds ==
    [][/\ name' # name => (ret'.op = "set_name" /\ name' = ret'.uniform_name)
       /\ (cb_pc' = cb_pc /\ main_pc = "idle" /\ ret'.op = "set_name")
             => /\ name' = ret'.uniform_name
                /\ ret'.after = name
                /\ video_buffer' = video_buffer
       /\ (cb_pc' = cb_pc /\ main_pc = "idle" /\ ret.op = "set_name")
             => /\ ret'.op = "provides" => ret'.value = ret.uniform_name
                /\ main_pc' = "lock" => call'.uniform_name = ret.uniform_name
                /\ ret'.op = "get"
                      => /\ ret'.uniform_name # ret.uniform_name
                         /\ ret'.value = "None"
                         /\ video_buffer' = video_buffer]_vars

\* set_name has replaced the provider's name by a different one while the slot
\* holds a frame.
RenamedWithFrame ==
    /\ ret.op = "set_name"
    /\ ret.after # ret.uniform_name
    /\ name = ret.uniform_name
    /\ video_buffer.data.some

\* The claimed result of normalising: bytes per pixel of a layout, where the
\* canonical channel c (1 = R, 2 = G, 3 = B) sits in a pixel of the layout, and
\* the width * height * 3 bytes that hold each input pixel's R, G, B.
ChannelsOf(layout) == IF layout \in {"Rgba", "Bgra"} THEN 4 ELSE 3
ChannelAt(layout, c) == IF layout \in {"Bgr", "Bgra"} THEN 4 - c ELSE c
Canonical(width, height, layout, samples) ==
    [i \in 1..(width * height * 3) |->
        samples[ChannelsOf(layout) * ((i - 1) \div 3) + ChannelAt(layout, ((i - 1) % 3) + 1)]]

\* C14 (normalization correctness): for a notification of a supported layout
\* whose buffer holds exactly width * height * bpp bytes, the converted image
\* has width * height * 3 bytes, each pixel the input pixel's R, G, B in that
\* order with the values unchanged, and these are the bytes written to the
\* slot.
NormalizationCorrect ==
    [][/\ (cb_pc = "convert" /\ cb_pc' # cb_pc /\ cb.format \in Formats
            /\ Len(cb.samples) = cb.width * cb.height * ChannelsOf(cb.format))
             => /\ cb_pc' = "lock"
                /\ Len(cb'.image) = cb.width * cb.height * 3
                /\ cb'.image = Canonical(cb.width, cb.height, cb.format, cb.samples)
       /\ (cb_pc = "write_data" /\ cb_pc' # cb_pc)
             => video_buffer'.data = SomeData(cb.image)]_vars

\* The slot holds the frame of a well-formed Bgra notification: its bytes are
\* the R, G, B of the notification's buffer, reordered and without the alpha.
NormalizedBgraInSlot ==
    /\ mutex.holder = "free"
    /\ pending.seq > 0
    /\ video_buffer.data =
          SomeData(Canonical(resolution[1], resolution[2], "Bgra",
                             Ramp(resolution[1] * resolution[2] * 4, pending.seq)))

\* C15 (notifications around stop are tolerated): once stop() has succeeded,
\* whether the notification began before or after it, no step of the callback
\* panics, and a callback that returns has either dropped its frame, with an
\* error and the slot as it was, or left a whole frame in the slot: data of
\* dimensions[0] * dimensions[1] * 3 bytes.
NotificationsAroundStopTolerated ==
    [][(stopped /\ cb_pc' # cb_pc) =>
          /\ cb_pc' # "panicked"
          /\ cb_pc' = "idle" =>
                \/ /\ flow'.value \in {"Eos", "Error"}
                   /\ video_buffer' = video_buffer
                \/ /\ flow'.value = "Ok"
                   /\ video_buffer'.data.some
                   /\ video_buffer'.dimensions[3] = 3
                   /\ Len(video_buffer'.data.bytes) =
                         video_buffer'.dimensions[1] * video_buffer'.dimensions[2] * 3]_vars

\* C16 (no blocking): under fair scheduling every notification that has
\* started returns and every get that has started returns, and with both
\* threads outside their calls the mutex is free.
NoBlocking ==
    /\ (cb_pc # "idle") ~> (cb_pc = "idle")
    /\ (main_pc \in {"lock", "locked"}) ~> (main_pc = "idle")
    /\ []((cb_pc \in {"idle", "panicked"} /\ main_pc \in {"idle", "dropped"})
             => mutex.holder = "free")

\* C17 (lock-hold discipline): the callback holds the guard exactly while it
\* assigns data and dimensions, so never while it pulls the sample, extracts
\* the metadata, maps the buffer or normalises the pixels, and the caller holds
\* it exactly during get's copy-out and clear.
LockHoldDiscipline ==
    /\ mutex.holder \in {"free", "callback", "get"}
    /\ mutex.holder = "callback" <=> cb_pc \in {"write_data", "write_dims"}
    /\ mutex.holder = "get" <=> main_pc = "locked"

\* The callback is normalising a frame while a get holds the guard.
NormalizingWhileGetHoldsLock ==
    /\ cb_pc = "convert"
    /\ cb.format \in Formats
    /\ main_pc = "locked" /\ mutex.holder = "get"

MismatchedGetNoEffect ==
    [][/\ (cb_pc' = cb_pc /\ main_pc = "idle" /\ (ret'.op = "get" \/ main_pc' = "lock"))
             => LET n == IF main_pc' = "lock" THEN call'.uniform_name
                                             ELSE ret'.uniform_name
                IN  n # name => /\ main_pc' = "idle"
                                /\ ret'.value = "None"
                                /\ UNCHANGED <<video_buffer, mutex, pending>>
       /\ (ReadStep /\ pending.seq > 0)
             => /\ ret'.texture.some
                /\ ret'.texture.bytes = pending.bytes
                /\ ret'.texture.size = <<pending.dimensions[1], pending.dimensions[2]>>]_vars

\* A get with another name and invalidate = true has returned None, and the
\* frame that no get has read yet is still in the slot.
MismatchLeftPendingFrame ==
    /\ ret.op = "get" /\ ret.uniform_name # name /\ ret.invalidate
    /\ ret.value = "None"
    /\ mutex.holder = "free"
    /\ pending.seq > 0 /\ lastRead.kind = "none"
    /\ video_buffer.data = SomeData(pending.bytes)

\* C20 (only notifications fill the slot, only a matching invalidating get
\* empties it): the slot's dimensions and data change only in the callback's
\* two assignments and in the read of a matching get with invalidate = true,
\* which clears the data; play, pause, stop, set_name, set_property and
\* provides leave the slot and the frame waiting in it as they are, and
\* set_property also the name and the pipeline's state; so a get after a
\* stop() returns the frame that is waiting.
OnlyNotificationsFill ==
    [][/\ video_buffer' # video_buffer =>
             \/ cb_pc \in {"write_data", "write_dims"} /\ cb_pc' # cb_pc
             \/ /\ ReadStep /\ call.invalidate /\ call.uniform_name = name
                /\ video_buffer' = [video_buffer EXCEPT !.data = NoData]
       /\ (~video_buffer.data.some /\ video_buffer'.data.some)
             => (cb_pc = "write_data" /\ cb_pc' # cb_pc)
       /\ (video_buffer.data.some /\ ~video_buffer'.data.some)
             => (ReadStep /\ call.invalidate /\ call.uniform_name = name)
       /\ (cb_pc' = cb_pc /\ main_pc = "idle"
            /\ ret'.op \in {"play", "pause", "stop", "set_name", "set_property", "provides"})
             => UNCHANGED <<video_buffer, pending>>
       /\ (cb_pc' = cb_pc /\ main_pc = "idle" /\ ret'.op = "set_property")
             => UNCHANGED <<name, pipeline, stopped>>
       /\ (ReadStep /\ stopped /\ pending.seq > 0)
             => (ret'.texture.some /\ ret'.texture.bytes = pending.bytes)]_vars

\* stop() has succeeded, the pipeline is in Null, and a get called after it
\* has returned the frame that was in the slot.
FrameReadAfterStop ==
    /\ stopped /\ pipeline = "Null"
    /\ ret.op = "get" /\ ret.texture.some
    /\ ret.after = "none"
====
